---- MODULE Spec2Model ----
(***************************************************************************)
(* Model of search/lib/api/wfs.js: the WFS3/STAC request handlers          *)
(* getCollections, getCollection, getItems (with findCloudCollections),    *)
(* getItem and getCatalog.                                                 *)
(*                                                                         *)
(* One request is handled at a time (the handlers share no state).  The    *)
(* Catalog Service (module cmr) and the converters are the environment:    *)
(* their answers are chosen with \E, and every awaited call may throw.      *)
(*                                                                         *)
(* Representation:                                                         *)
(*  - an optional value is <<>> (absent/undefined) or <<v>> (present);     *)
(*  - a URL path or a '/'-separated template is the sequence of its        *)
(*    segments (String.split('/') is the identity on that view);           *)
(*  - a list of collection concept ids (integers) is kept run-length       *)
(*    encoded, as the sequence of its maximal runs [lo, hi] of consecutive *)
(*    ids, so that a list of 9999 pages of 2000 ids stays small.           *)
(***************************************************************************)
EXTENDS Integers, Sequences, FiniteSets, TLC

\* ---------------------------------------------------------------- bounds
MaxPage == 3         \* page numbers a collections listing is asked for
MaxLimit == 3        \* explicit ?limit= values 1..MaxLimit
MaxTotal == 21       \* collections the provider has upstream
MaxRecords == 2      \* native records a single-collection lookup may return
MaxSegments == 3     \* date path segments of a browse request
ShortPage == 500     \* length of a non-empty short page of cloud collections

\* ------------------------------------------------------ program constants
DefaultPageSize == 10      \* Number(request.query.limit || 10)
CloudPageSize == 2000      \* { page_size: 2000 } and collections.length < 2000
CloudPageLimit == 10000    \* for (let i = 1; i < 10000; i++)

\* --------------------------------------------------------- optional values
Absent == <<>>
Some(v) == <<v>>
Has(o) == o # <<>>
Undefined == "undefined"
\* JavaScript truthiness of a string-or-undefined value
Truthy(s) == s # Undefined /\ s # ""

Link(rel, to) == [rel |-> rel, to |-> to]
Rels(ls) == [k \in DOMAIN ls |-> ls[k].rel]
Targets(ls, rel) == SelectSeq(ls, LAMBDA l : l.rel = rel)

\* ------------------------------------------------------- lists of ids (RLE)
RECURSIVE Length(_)
Length(ids) ==
  IF ids = <<>> THEN 0
  ELSE (ids[1].hi - ids[1].lo + 1) + Length(Tail(ids))

\* the ids lo..hi in order (empty when hi < lo)
RangeIds(lo, hi) == IF hi < lo THEN <<>> ELSE <<[lo |-> lo, hi |-> hi]>>

\* allCloudCollections.push(id)
PushId(ids, id) ==
  IF ids # <<>> /\ ids[Len(ids)].hi + 1 = id
  THEN [ids EXCEPT ![Len(ids)].hi = id]
  ELSE Append(ids, [lo |-> id, hi |-> id])

\* the list holding the ids of the plain sequence s
RECURSIVE IdsOf(_)
IdsOf(s) == IF s = <<>> THEN <<>> ELSE PushId(IdsOf(SubSeq(s, 1, Len(s) - 1)), s[Len(s)])

IdSet(ids) == UNION { r.lo .. r.hi : r \in { ids[k] : k \in DOMAIN ids } }

\* ------------------------------------------------------------------ state
VARIABLES
  cmrStacRelativeRootUrl,  \* settings.cmrStacRelativeRootUrl
  BROWSE_PATH,             \* process.env.BROWSE_PATH: Absent or Some(template)
  handler,                 \* the handler of the current request
  pc,                      \* where that handler stands
  request,                 \* what the request carries
  params,                  \* getItems: the extracted search parameters
  cmrParams,               \* getItems: the native query
  collectionConceptIds,    \* getItems: cmrParams.collection_concept_id, saved
  conceptIds,              \* getItems: cmrParams.concept_id, saved
  i,                       \* findCloudCollections: the loop counter
  allCloudCollections,     \* findCloudCollections: the ids accumulated
  resolver,                \* findCloudCollections: idle/running/returned/failed
  cmr,                     \* what the Catalog Service was asked and answered
  granuleQueries,          \* the queries passed to cmr.findGranules
  response,                \* what the handler sent
  rejected,                \* the handler threw without sending a response
  links                    \* the links of the document sent

vars == <<cmrStacRelativeRootUrl, BROWSE_PATH, handler, pc, request, params,
          cmrParams, collectionConceptIds, conceptIds, i, allCloudCollections,
          resolver, cmr, granuleQueries, response, rejected, links>>

settingsVars == <<cmrStacRelativeRootUrl, BROWSE_PATH>>
itemsVars == <<params, cmrParams, collectionConceptIds, conceptIds, i,
               allCloudCollections, resolver>>

NoFacets == [years |-> <<>>, months |-> <<>>, days |-> <<>>, itemids |-> <<>>]

NoRequest ==
  [method |-> "GET", collectionId |-> Undefined, collections |-> Absent,
   ids |-> Absent, limit |-> Absent, page |-> 1, path |-> <<>>,
   itemId |-> Undefined]

\* nothing asked of the Catalog Service yet
NoCmr ==
  [lookup |-> "none",      \* stacIdToCmrCollectionId: none/found/absent/threw
   total |-> 0,            \* collections the provider has (collections listing)
   records |-> -1,         \* records the last findCollections returned, -1: none
   granules |-> -1,        \* granules the last findGranules returned, -1: none
   facets |-> NoFacets,    \* the answer of getGranuleTemporalFacets
   fetches |-> 0,          \* findCollections calls made by findCloudCollections
   page_num |-> 0,         \* page_num of the last of them
   page_size |-> 0,        \* page_size of the last of them
   shortPages |-> 0,       \* pages of fewer than 2000 records among the answers
   served |-> 0]           \* records in all the answers together

NoResponse == [status |-> 0, body |-> "none", n |-> 0]
Json(status, body, n) == [status |-> status, body |-> body, n |-> n]

CMR_STAC == "/stac"
CLOUD_STAC == "/cloudstac"
BrowseTemplate == <<"year", "month", "day">>

Init ==
  /\ cmrStacRelativeRootUrl \in {CMR_STAC, CLOUD_STAC}
  /\ BROWSE_PATH \in {Absent, Some(BrowseTemplate)}
  /\ handler = "none"
  /\ pc = "idle"
  /\ request = NoRequest
  /\ params = Absent
  /\ cmrParams = Absent
  /\ collectionConceptIds = Absent
  /\ conceptIds = Absent
  /\ i = 0
  /\ allCloudCollections = <<>>
  /\ resolver = "idle"
  /\ cmr = NoCmr
  /\ granuleQueries = <<>>
  /\ response = NoResponse
  /\ rejected = FALSE
  /\ links = <<>>

\* the outcome of a handler that runs in one step
Outcome(resp, rej, ls, queries, asked) ==
  [response |-> resp, rejected |-> rej, links |-> ls, granuleQueries |-> queries,
   cmr |-> asked]

Finish(name, req, out) ==
  /\ handler' = name
  /\ pc' = "done"
  /\ request' = req
  /\ response' = out.response
  /\ rejected' = out.rejected
  /\ links' = out.links
  /\ granuleQueries' = out.granuleQueries
  /\ cmr' = out.cmr
  /\ UNCHANGED settingsVars
  /\ UNCHANGED itemsVars

\* ---------------------------------------------------------- getCollections
Limits == {Absent} \cup { Some(n) : n \in 1..MaxLimit }

\* cmr.findCollections of a listing: page page_num of the provider's `total`
\* collections at page_size records a page
FindCollectionsPage(total, page_num, page_size) ==
  LET first == (page_num - 1) * page_size
      n == IF total - first > page_size THEN page_size
           ELSE IF total - first > 0 THEN total - first ELSE 0
  IN  [k \in 1..n |-> first + k]

\* const pageSize = Number(request.query.limit || 10)
PageSizeOf(limit) == IF Has(limit) THEN limit[1] ELSE DefaultPageSize

\* the links the collections document starts with
BaseLinks == <<Link("self", ""), Link("root", "")>>

\* if (currPage > 1 && collectionsResponse.links.length > 1) push prev
WithPrev(ls, currPage) ==
  IF currPage > 1 /\ Len(ls) > 1 THEN Append(ls, Link("prev", "")) ELSE ls

WithNext_AnyResults(ls, n, pageSize) ==
  IF n > 0 THEN Append(ls, Link("next", "")) ELSE ls

\* if (collectionsResponse.collections.length === pageSize) push next
WithNext(ls, n, pageSize) ==
  IF n = pageSize THEN Append(ls, Link("next", "")) ELSE ls

GetCollectionsResult(limit, currPage, total, fault) ==
  LET pageSize == PageSizeOf(limit)
      collections == FindCollectionsPage(total, currPage, pageSize)
      asked == [NoCmr EXCEPT !.total = total,
                             !.records = IF fault = "findCollections" THEN -1
                                         ELSE Len(collections)]
      ls == WithNext(WithPrev(BaseLinks, currPage), Len(collections), pageSize)
  IN  IF fault # "none"
      THEN \* catch (e): response.status(400).json(e.message)
           Outcome(Json(400, "message", 0), FALSE, <<>>, <<>>, asked)
      ELSE Outcome(Json(200, "collections", Len(collections)), FALSE, ls, <<>>, asked)

GetCollections ==
  /\ pc = "idle"
  /\ \E limit \in Limits, currPage \in 1..MaxPage, total \in 0..MaxTotal,
        fault \in {"none", "findCollections", "assertValid"} :
       Finish("getCollections",
              [NoRequest EXCEPT !.limit = limit, !.page = currPage],
              GetCollectionsResult(limit, currPage, total, fault))

\* ----------------------------------------------------------- getCollection
FacetLists == { <<>>, <<"01">>, <<"01", "02">> }

First(s) == IF s = <<>> THEN Absent ELSE Some(s[1])

CollectionMissing_Never(collections) == FALSE

\* if (collections.length === 0) return 404
CollectionMissing(collections) == Len(collections) = 0

\* facets.years.map(y => createLink('child', ...))
BrowseLinks(years) == [k \in DOMAIN years |-> Link("child", years[k])]

GetCollectionResult(n, years, fault, ofUndefined) ==
  LET collections == [k \in 1..n |-> k]
      asked == [NoCmr EXCEPT !.records = IF fault = "findCollections" THEN -1 ELSE n,
                             !.facets = IF Has(BROWSE_PATH) /\ fault = "none"
                                        THEN [NoFacets EXCEPT !.years = years]
                                        ELSE NoFacets]
      caught == Outcome(Json(404, "message", 0), FALSE, <<>>, <<>>, asked)
      browse == IF Has(BROWSE_PATH) THEN BrowseLinks(years) ELSE <<>>
  IN  IF fault = "findCollections" THEN caught
      ELSE IF CollectionMissing(collections)
      THEN Outcome(Json(404, "message", 0), FALSE, <<>>, <<>>, asked)
      ELSE IF ~Has(First(collections)) /\ ofUndefined = "throw" THEN caught
      ELSE IF fault # "none" THEN caught
      ELSE Outcome(Json(200, "collection", 0), FALSE, BaseLinks \o browse, <<>>, asked)

GetCollection ==
  /\ pc = "idle"
  /\ \E collectionId \in {"a", "x"}, n \in 0..MaxRecords, years \in FacetLists,
        fault \in {"none", "findCollections", "getGranuleTemporalFacets", "assertValid"},
        ofUndefined \in {"throw", "document"} :
       /\ fault = "getGranuleTemporalFacets" => Has(BROWSE_PATH)
       /\ Finish("getCollection",
                 [NoRequest EXCEPT !.collectionId = collectionId],
                 GetCollectionResult(n, years, fault, ofUndefined))

\* ------------------------------------------------------------------ getItems
Methods == {"GET", "POST", "PUT"}
PathCollectionIds == {Undefined, "a", "x"}
CollectionsParams ==
  {Absent, Some(<<>>), Some(<<"a">>), Some(<<"x">>), Some(<<"a", "b">>), Some(<<"b", "x">>)}
IdsParams == {Absent, Some(<<"G1">>)}
Errors == {"Error", "InvalidSortPropertyError"}

\* cmr.stacIdToCmrCollectionId: the provider has the collections "a" and "b"
StacIdToCmrCollectionId(stacId) ==
  CASE stacId = "a" -> Some(1)
    [] stacId = "b" -> Some(2)
    [] OTHER -> Absent

RECURSIVE ValidConceptIds(_)
ValidConceptIds(cs) ==
  IF cs = <<>> THEN <<>>
  ELSE LET c == StacIdToCmrCollectionId(cs[1])
       IN  (IF Has(c) THEN <<c[1]>> ELSE <<>>) \o ValidConceptIds(Tail(cs))

\* cmr.convertParams: the collections that exist become collection_concept_id
\* (no key when none does), the ids become concept_id
ConvertParams(p) ==
  LET valid == IF Has(p.collections) THEN ValidConceptIds(p.collections[1]) ELSE <<>>
  IN  [collection_concept_id |-> IF valid # <<>> THEN Some(valid) ELSE Absent,
       concept_id |-> p.ids]

\* extractParams: the method decides where the parameters come from
ExtractParams(method, collections, ids) ==
  IF method \in {"GET", "POST"}
  THEN Some([collections |-> collections, ids |-> ids])
  ELSE Absent  \* throw new Error(`Invalid httpMethod ${method}`)

CollectionsParamGiven_Never(p) == FALSE

\* if (params.collections): an array is truthy, also when empty
CollectionsParamGiven(p) == Has(p.collections)

\* (collectionsRequested && validCollections) || (!collectionsRequested)
SearchAllowed(collectionsRequested, validCollections) ==
  (collectionsRequested /\ validCollections) \/ ~collectionsRequested

\* catch (err): 422 for an InvalidSortPropertyError, 400 otherwise
StatusOf(err) == IF err = "InvalidSortPropertyError" THEN 422 ELSE 400

\* where getItems stands before its first search-related call
BeginState(to, p, q, ccids, cids, resp, rej, lookup) ==
  [pc |-> to, params |-> p, cmrParams |-> q, collectionConceptIds |-> ccids,
   conceptIds |-> cids, response |-> resp, rejected |-> rej, lookup |-> lookup]

GetItemsBeginResult(method, collectionId, collections, ids, lookupThrows, convertError) ==
  LET extracted == ExtractParams(method, collections, ids)
      cmrCollectionId == StacIdToCmrCollectionId(collectionId)
      lookup == IF ~Truthy(collectionId) THEN "none"
                ELSE IF lookupThrows THEN "threw"
                ELSE IF Has(cmrCollectionId) THEN "found" ELSE "absent"
      stop(p, status) ==
        BeginState("done", p, Absent, Absent, Absent, Json(status, "message", 0), FALSE, lookup)
      search(p) ==
        LET q == ConvertParams(p)
            collectionsRequested == Has(p.collections)
            validCollections == Has(q.collection_concept_id)
        IN  IF ~SearchAllowed(collectionsRequested, validCollections)
            THEN BeginState("assemble", Some(p), Some(q), Absent, Absent, NoResponse, FALSE, lookup)
            ELSE IF cmrStacRelativeRootUrl = CLOUD_STAC
            THEN \* the two keys are saved, then deleted from cmrParams
                 BeginState("findCloudCollections", Some(p),
                            Some([collection_concept_id |-> Absent, concept_id |-> Absent]),
                            q.collection_concept_id, q.concept_id, NoResponse, FALSE, lookup)
            ELSE BeginState("findGranules", Some(p), Some(q), Absent, Absent,
                            NoResponse, FALSE, lookup)
      convert(p) ==
        IF convertError # "none" THEN stop(Some(p), StatusOf(convertError)) ELSE search(p)
  IN  IF ~Has(extracted)
      THEN BeginState("done", Absent, Absent, Absent, Absent, NoResponse, TRUE, "none")
      ELSE LET p == extracted[1]
           IN  IF ~Truthy(collectionId) THEN convert(p)
               ELSE IF lookupThrows THEN stop(Some(p), 400)
               ELSE IF ~Has(cmrCollectionId) THEN stop(Some(p), 404)
               ELSE IF CollectionsParamGiven(p) THEN stop(Some(p), 404)
               ELSE convert([p EXCEPT !.collections = Some(<<collectionId>>)])

GetItemsBegin ==
  /\ pc = "idle"
  /\ \E method \in Methods, collectionId \in PathCollectionIds,
        collections \in CollectionsParams, ids \in IdsParams,
        lookupThrows \in BOOLEAN, convertError \in {"none"} \cup Errors :
       LET to == GetItemsBeginResult(method, collectionId, collections, ids,
                                     lookupThrows, convertError)
       IN  /\ handler' = "getItems"
           /\ request' = [NoRequest EXCEPT !.method = method,
                                           !.collectionId = collectionId,
                                           !.collections = collections,
                                           !.ids = ids]
           /\ pc' = to.pc
           /\ params' = to.params
           /\ cmrParams' = to.cmrParams
           /\ collectionConceptIds' = to.collectionConceptIds
           /\ conceptIds' = to.conceptIds
           /\ response' = to.response
           /\ rejected' = to.rejected
           /\ cmr' = [NoCmr EXCEPT !.lookup = to.lookup]
           /\ i' = IF to.pc = "findCloudCollections" THEN 1 ELSE 0
           /\ resolver' = IF to.pc = "findCloudCollections" THEN "running" ELSE "idle"
           /\ allCloudCollections' = <<>>
           /\ granuleQueries' = <<>>
           /\ links' = <<>>
           /\ UNCHANGED settingsVars

\* ------------------------------------------------------ findCloudCollections
PageLengths == {0, ShortPage, CloudPageSize}

Members(s) == { s[k] : k \in DOMAIN s }

\* cmr.findCollections of the cloud holdings: with a concept_id filter, those
\* of the ids asked for that are cloud holding (one short page); without one,
\* the next records of the provider's cloud holdings
CloudPages(filter, page_num, served) ==
  IF Has(filter)
  THEN IF page_num = 1
       THEN { IdsOf(SelectSeq(filter[1], LAMBDA c : c \in K)) : K \in SUBSET Members(filter[1]) }
       ELSE { <<>> }
  ELSE { RangeIds(served + 1, served + n) : n \in PageLengths }

\* for (j ...) allCloudCollections.push(collections[j].id)
RECURSIVE PushAll(_, _)
PushAll(ids, page) ==
  IF page = <<>> THEN ids
  ELSE LET r == page[1]
           joined == IF ids # <<>> /\ ids[Len(ids)].hi + 1 = r.lo
                     THEN [ids EXCEPT ![Len(ids)].hi = r.hi]
                     ELSE Append(ids, r)
       IN  PushAll(joined, Tail(page))

LastPage_Full(n) == n <= CloudPageSize

\* if (collections.length < 2000) break
LastPage(n) == n < CloudPageSize

FindCloudCollectionsPage ==
  /\ pc = "findCloudCollections"
  /\ i < CloudPageLimit
  /\ \E page \in CloudPages(collectionConceptIds, i, cmr.served) :
       LET n == Length(page)
           more == ~LastPage(n) /\ i + 1 < CloudPageLimit
       IN  /\ allCloudCollections' = PushAll(allCloudCollections, page)
           /\ cmr' = [cmr EXCEPT !.fetches = @ + 1,
                                 !.page_num = i,
                                 !.page_size = CloudPageSize,
                                 !.shortPages = @ + (IF n < CloudPageSize THEN 1 ELSE 0),
                                 !.served = @ + n]
           /\ i' = IF LastPage(n) THEN i ELSE i + 1
           /\ pc' = IF more THEN "findCloudCollections" ELSE "resolved"
           /\ resolver' = IF more THEN "running" ELSE "returned"
  /\ UNCHANGED <<settingsVars, handler, request, params, cmrParams,
                 collectionConceptIds, conceptIds, granuleQueries, response,
                 rejected, links>>

\* a page request fails: the error leaves findCloudCollections and is caught
\* by getItems
FindCloudCollectionsFails ==
  /\ pc = "findCloudCollections"
  /\ i < CloudPageLimit
  /\ cmr' = [cmr EXCEPT !.fetches = @ + 1, !.page_num = i, !.page_size = CloudPageSize]
  /\ resolver' = "failed"
  /\ pc' = "done"
  /\ response' = Json(StatusOf("Error"), "message", 0)
  /\ UNCHANGED <<settingsVars, handler, request, params, cmrParams,
                 collectionConceptIds, conceptIds, i, allCloudCollections,
                 granuleQueries, rejected, links>>

\* ------------------------------------------------- getItems: the granule search
CloudFilter_Always(ids) == Some(ids)

\* if (allCloudCollections.length !== 0) append each id as collection_concept_id
CloudFilter(ids) == IF Length(ids) # 0 THEN Some(ids) ELSE Absent

\* cmr.findGranules(query): it answers with some granules or throws
FindGranules(query) ==
  /\ granuleQueries' = Append(granuleQueries, query)
  /\ \/ \E n \in 0..1 :
          /\ cmr' = [cmr EXCEPT !.granules = n]
          /\ pc' = "assemble"
          /\ UNCHANGED response
     \/ /\ pc' = "done"
        /\ response' = Json(StatusOf("Error"), "message", 0)
        /\ UNCHANGED cmr
  /\ UNCHANGED <<settingsVars, handler, request, params, cmrParams,
                 collectionConceptIds, conceptIds, i, allCloudCollections,
                 resolver, rejected, links>>

GetItemsCloudSearch ==
  /\ pc = "resolved"
  /\ FindGranules([collection_concept_id |-> CloudFilter(allCloudCollections),
                   concept_id |-> conceptIds])

GetItemsSearch ==
  /\ pc = "findGranules"
  /\ FindGranules([collection_concept_id |->
                     IF Has(cmrParams[1].collection_concept_id)
                     THEN Some(IdsOf(cmrParams[1].collection_concept_id[1]))
                     ELSE Absent,
                   concept_id |-> cmrParams[1].concept_id])

\* cmrGranulesToStac, assertValid, stacExtension.format, response.json
GetItemsRespond ==
  /\ pc = "assemble"
  /\ \E err \in {"none"} \cup Errors :
       response' = IF err = "none"
                   THEN Json(200, "items", IF cmr.granules < 0 THEN 0 ELSE cmr.granules)
                   ELSE Json(StatusOf(err), "message", 0)
  /\ params' = IF Truthy(request.collectionId)
               THEN Some([params[1] EXCEPT !.collections = Absent])
               ELSE params
  /\ pc' = "done"
  /\ UNCHANGED <<settingsVars, handler, request, cmrParams, collectionConceptIds,
                 conceptIds, i, allCloudCollections, resolver, cmr,
                 granuleQueries, rejected, links>>

\* -------------------------------------------------------------------- getItem
\* convert.cmrGranuleToStac(event, granules[0]) and assertValid: granules[0] is
\* undefined when the search found nothing; what the converter does with
\* undefined is either to throw or to build a document from nothing
GetItemResult(collectionId, itemId, n, fault, ofUndefined) ==
  LET cmrCollectionId == StacIdToCmrCollectionId(collectionId)
      lookup == IF fault = "stacIdToCmrCollectionId" THEN "threw"
                ELSE IF Has(cmrCollectionId) THEN "found" ELSE "absent"
      granules == [k \in 1..n |-> itemId]
      query == [collection_concept_id |-> Some(IdsOf(<<cmrCollectionId[1]>>)),
                concept_id |-> Some(<<itemId>>)]
      asked == [NoCmr EXCEPT !.lookup = lookup]
      found == [asked EXCEPT !.granules = n]
      throws(queries, a) == Outcome(NoResponse, TRUE, <<>>, queries, a)
  IN  IF fault = "stacIdToCmrCollectionId" THEN throws(<<>>, asked)
      ELSE IF ~Has(cmrCollectionId)
      THEN Outcome(Json(404, "message", 0), FALSE, <<>>, <<>>, asked)
      ELSE IF fault = "findGranules" THEN throws(<<query>>, asked)
      ELSE IF ~Has(First(granules)) /\ ofUndefined = "throw" THEN throws(<<query>>, found)
      ELSE IF fault = "assertValid" THEN throws(<<query>>, found)
      ELSE Outcome(Json(200, "item", n), FALSE, BaseLinks, <<query>>, found)

GetItem ==
  /\ pc = "idle"
  /\ \E collectionId \in {"a", "x"}, n \in 0..1,
        fault \in {"none", "stacIdToCmrCollectionId", "findGranules", "assertValid"},
        ofUndefined \in {"throw", "document"} :
       Finish("getItem",
              [NoRequest EXCEPT !.collectionId = collectionId, !.itemId = "G1"],
              GetItemResult(collectionId, "G1", n, fault, ofUndefined))

\* ----------------------------------------------------------------- getCatalog
ItemLists == { <<>>, <<"G1">>, <<"G1", "G2">> }

DateSegment(k) ==
  CASE k = 1 -> "2001"
    [] k = 2 -> "05"
    [] k = 3 -> "17"
    [] OTHER -> "00"

\* request.params['0'].split('/'): the date segments after the collection
DatePath(n) == [k \in 1..n |-> DateSegment(k)]

\* Object.fromEntries(params.map((val, idx) => [browseTemplate[idx], val]))[name]
BrowseParam(template, segments, name) ==
  LET at == { k \in DOMAIN segments \cap DOMAIN template : template[k] = name }
  IN  IF at = {} THEN Undefined
      ELSE segments[CHOOSE k \in at : \A j \in at : j <= k]

\* cat.createRoot, cat.createSelf, cat.createParent
CatalogLinks == <<Link("root", ""), Link("self", ""), Link("parent", "")>>

\* cat.addChild(title, path) / cat.addItem(id, ...): one link for each entry
EntryLinks(rel, entries) == [k \in DOMAIN entries |-> Link(rel, entries[k])]

CatalogEntries_YearFirst(year, month, day, facets) ==
  IF Truthy(year) THEN EntryLinks("child", facets.months)
  ELSE IF Truthy(month) THEN EntryLinks("child", facets.days)
  ELSE IF Truthy(day) THEN EntryLinks("item", facets.itemids)
  ELSE <<>>

\* if (day) items else if (month) days else if (year) months
CatalogEntries(year, month, day, facets) ==
  IF Truthy(day) THEN EntryLinks("item", facets.itemids)
  ELSE IF Truthy(month) THEN EntryLinks("child", facets.days)
  ELSE IF Truthy(year) THEN EntryLinks("child", facets.months)
  ELSE <<>>

GetCatalogResult(collectionId, segments, facets, fault) ==
  LET browseTemplate == BROWSE_PATH[1]
      year == BrowseParam(browseTemplate, segments, "year")
      month == BrowseParam(browseTemplate, segments, "month")
      day == BrowseParam(browseTemplate, segments, "day")
      cmrCollectionId == StacIdToCmrCollectionId(collectionId)
      lookup == IF fault = "stacIdToCmrCollectionId" THEN "threw"
                ELSE IF Has(cmrCollectionId) THEN "found" ELSE "absent"
      asked == [NoCmr EXCEPT !.lookup = lookup]
  IN  IF fault = "stacIdToCmrCollectionId"
      THEN Outcome(NoResponse, TRUE, <<>>, <<>>, asked)
      ELSE IF ~Has(cmrCollectionId)
      THEN Outcome(Json(404, "message", 0), FALSE, <<>>, <<>>, asked)
      ELSE IF fault = "getGranuleTemporalFacets"
      THEN Outcome(NoResponse, TRUE, <<>>, <<>>, asked)
      ELSE Outcome(Json(200, "catalog", 0), FALSE,
                   CatalogLinks \o CatalogEntries(year, month, day, facets), <<>>,
                   [asked EXCEPT !.facets = facets])

\* routed only when BROWSE_PATH is set
GetCatalog ==
  /\ pc = "idle"
  /\ Has(BROWSE_PATH)
  /\ \E collectionId \in {"a", "x"}, n \in 1..MaxSegments,
        months \in FacetLists, days \in FacetLists, itemids \in ItemLists,
        fault \in {"none", "stacIdToCmrCollectionId", "getGranuleTemporalFacets"} :
       Finish("getCatalog",
              [NoRequest EXCEPT !.collectionId = collectionId, !.path = DatePath(n)],
              GetCatalogResult(collectionId, DatePath(n),
                               [years |-> <<"2001">>, months |-> months,
                                days |-> days, itemids |-> itemids],
                               fault))

Reset ==
  /\ pc = "done"
  /\ handler' = "none"
  /\ pc' = "idle"
  /\ request' = NoRequest
  /\ params' = Absent
  /\ cmrParams' = Absent
  /\ collectionConceptIds' = Absent
  /\ conceptIds' = Absent
  /\ i' = 0
  /\ allCloudCollections' = <<>>
  /\ resolver' = "idle"
  /\ cmr' = NoCmr
  /\ granuleQueries' = <<>>
  /\ response' = NoResponse
  /\ rejected' = FALSE
  /\ links' = <<>>
  /\ UNCHANGED settingsVars

Next ==
  \/ GetCollections
  \/ GetCollection
  \/ GetItemsBegin
  \/ FindCloudCollectionsPage
  \/ FindCloudCollectionsFails
  \/ GetItemsCloudSearch
  \/ GetItemsSearch
  \/ GetItemsRespond
  \/ GetItem
  \/ GetCatalog
  \/ Reset

Spec == Init /\ [][Next]_vars

\* ===================================================================== claims
HasRel(rel) == \E k \in DOMAIN links : links[k].rel = rel
LinkTargets(rel) == LET ls == Targets(links, rel) IN [k \in DOMAIN ls |-> ls[k].to]

\* a getItems request whose extracted parameters carry `collections` while the
\* path names a collection
BothScopes ==
  /\ handler = "getItems"
  /\ Has(params)
  /\ Truthy(request.collectionId)
  /\ Has(request.collections)

C2_NoRecordsIsNotFound ==
  (handler = "getCollection" /\ pc = "done") =>
    /\ ~rejected
    /\ (cmr.records = 0 => response.status = 404 /\ response.body = "message")
    /\ (response.status \in 200..299 => cmr.records >= 1)
    /\ (response.body = "collection" => cmr.records >= 1 /\ response.status = 200)

C2_Witness ==
  /\ handler = "getCollection"
  /\ pc = "done"
  /\ cmr.records = 0
  /\ response.status = 404

\* C3: in the collections listing `prev` needs a page greater than 1 and a
\* link other than self/root already in the document; stated for the case the
\* claim singles out: a listing for a page greater than 1 that returns no
\* results, whose only other links are self and root, carries no `prev`.
C3_NoPrevOnEmptyPage ==
  (/\ handler = "getCollections"
   /\ response.body = "collections"
   /\ request.page > 1
   /\ cmr.records = 0
   /\ \A k \in DOMAIN links : links[k].rel \in {"self", "root", "prev"}) =>
    ~HasRel("prev")

\* C4: the collections listing carries `next` exactly when the number of
\* collections returned equals the page size asked for (limit, else 10); for a
\* total that is a positive multiple of the page size the last non-empty page
\* carries `next` and the page after it, with no results, does not; page 1
\* with a full page has exactly the links self, root, next.
C4_NextIffFullPage ==
  (handler = "getCollections" /\ response.body = "collections") =>
    LET pageSize == IF Has(request.limit) THEN request.limit[1] ELSE 10
        n == cmr.records
        last == cmr.total \div pageSize
    IN  /\ response.n = n
        /\ HasRel("next") <=> (n = pageSize)
        /\ Cardinality({ k \in DOMAIN links : links[k].rel = "next" }) <= 1
        /\ (request.page = 1 /\ n = pageSize) => Rels(links) = <<"self", "root", "next">>
        /\ (cmr.total > 0 /\ cmr.total % pageSize = 0) =>
             /\ (request.page = last => n = pageSize /\ HasRel("next"))
             /\ (request.page = last + 1 => n = 0 /\ ~HasRel("next"))

C4_Witness ==
  /\ handler = "getCollections"
  /\ response.body = "collections"
  /\ ~Has(request.limit)
  /\ request.page = 1
  /\ cmr.records = 10
  /\ Rels(links) = <<"self", "root", "next">>

\* C5: findCloudCollections asks for page_num 1, 2, 3, ... in turn at
\* page_size 2000, goes on only while every page so far was full, makes at
\* most 9999 requests, returns only after a short page or the 9999th request,
\* and returns the records of all the pages in page order.
C5_SequentialPagingUntilShortPage ==
  (handler = "getItems" /\ resolver # "idle") =>
    /\ cmr.fetches <= 9999
    /\ (cmr.fetches > 0 => cmr.page_num = cmr.fetches /\ cmr.page_size = 2000)
    /\ cmr.shortPages <= 1
    /\ (resolver = "running" => cmr.shortPages = 0 /\ i = cmr.fetches + 1)
    /\ (resolver = "returned" =>
          /\ cmr.shortPages = 1 \/ cmr.fetches = 9999
          /\ cmr.shortPages = 1 => cmr.served < 2000 * cmr.fetches
          /\ Length(allCloudCollections) = cmr.served
          /\ ~Has(collectionConceptIds) =>
               allCloudCollections = IF cmr.served = 0 THEN <<>>
                                     ELSE <<[lo |-> 1, hi |-> cmr.served]>>
          /\ Has(collectionConceptIds) =>
               IdSet(allCloudCollections) \subseteq Members(collectionConceptIds[1]))

\* pages of 2000, 2000 and 500 records: 4500 ids after three requests
C5_Witness ==
  /\ resolver = "returned"
  /\ cmr.fetches = 3
  /\ cmr.page_num = 3
  /\ Length(allCloudCollections) = 4500

\* C6: when all 9999 pages came back full, findCloudCollections fails rather
\* than return the ids gathered so far, and getItems issues no granule search.
C6_ExhaustionIsSurfaced ==
  (handler = "getItems" /\ cmr.fetches = 9999 /\ cmr.served = 9999 * 2000) =>
    /\ resolver = "failed"
    /\ granuleQueries = <<>>

\* a cloud-only getItems request that asks for no collections and whose
\* cloud-collection lookup returned nothing
NothingRequestedNothingCloud ==
  /\ handler = "getItems"
  /\ cmrStacRelativeRootUrl = "/cloudstac"
  /\ Has(params)
  /\ ~Truthy(request.collectionId)
  /\ ~Has(request.collections)
  /\ resolver = "returned"
  /\ allCloudCollections = <<>>

\* C7: in cloud-only mode, with no collections asked for and an empty
\* cloud-collection set, getItems issues the granule search exactly once and
\* its query has no collection_concept_id key at all.
C7_EmptyCloudSetStillSearches ==
  NothingRequestedNothingCloud =>
    IF pc = "resolved"
    THEN granuleQueries = <<>>
    ELSE /\ Len(granuleQueries) = 1
         /\ granuleQueries[1].collection_concept_id = Absent
         /\ granuleQueries[1].concept_id = request.ids

C7_Witness ==
  /\ NothingRequestedNothingCloud
  /\ pc = "done"
  /\ response.status = 200
  /\ Len(granuleQueries) = 1

\* C8: a browse catalog has one child link for each of facets.months under a
\* year, one child link for each of facets.days under a year and month, one
\* item link for each granule id under a year, month and day, nothing of the
\* other kind in each case, and never both child and item links.
C8_CatalogLinksFollowDepth ==
  (handler = "getCatalog" /\ response.body = "catalog") =>
    LET n == Len(request.path)
        children == LinkTargets("child")
        items == LinkTargets("item")
    IN  /\ n = 1 => children = cmr.facets.months /\ items = <<>>
        /\ n = 2 => children = cmr.facets.days /\ items = <<>>
        /\ n = 3 => items = cmr.facets.itemids /\ children = <<>>
        /\ ~(children # <<>> /\ items # <<>>)
        /\ Len(children) + Len(items) + 3 = Len(links)

C8_Witness ==
  /\ handler = "getCatalog"
  /\ response.body = "catalog"
  /\ Len(request.path) = 1
  /\ cmr.facets.months = <<"01", "02">>
  /\ Len(LinkTargets("child")) = 2
  /\ LinkTargets("item") = <<>>

\* C9: in getItem, when the collection resolves and the granule search finds
\* nothing, the handler answers 404 with a message.
C9_MissingGranuleIsNotFound ==
  (handler = "getItem" /\ pc = "done" /\ cmr.lookup = "found" /\ cmr.granules = 0) =>
    /\ ~rejected
    /\ response.status = 404
    /\ response.body = "message"

\* C10: in cloud-only mode, every granule search of a getItems request that
\* names collections carries a non-empty collection_concept_id filter made of
\* concept ids of the collections asked for.
C10_CloudSearchWithinRequested ==
  (/\ handler = "getItems"
   /\ cmrStacRelativeRootUrl = "/cloudstac"
   /\ Has(params)
   /\ Truthy(request.collectionId) \/ Has(request.collections)) =>
    \A k \in DOMAIN granuleQueries :
      LET filter == granuleQueries[k].collection_concept_id
      IN  /\ Has(filter)
          /\ Length(filter[1]) > 0
          /\ Has(collectionConceptIds)
          /\ IdSet(filter[1]) \subseteq Members(collectionConceptIds[1])

====
